---------------------------- MODULE Spec2Model ----------------------------
(***************************************************************************)
(* A model of secretaria-juliana: the WhatsApp message relay (the          *)
(* MessagesController, MessageService, ZapiService and the stand-alone     *)
(* enviarMensagem client), the in-memory AppointmentService with its       *)
(* controller, callers and concurrent requests, and the operator's         *)
(* PowerShell scripts (test_zapi_variants.ps1, Import-EnvFile).            *)
(*                                                                         *)
(* Two sorts of string occur.  Text typed by a user (a phone number, a     *)
(* message) is a sequence of one-character strings, so that trim and the   *)
(* phone pattern are computed character by character.  Fixed text (URLs,   *)
(* vendor bodies, error messages) is a TLA+ string, joined with \o.        *)
(* The strings of the scripts are sequences of the pieces they are         *)
(* interpolated from, so that a parameter shows inside a line as itself.   *)
(***************************************************************************)
EXTENDS Naturals, Sequences, FiniteSets, TLC

VARIABLES
    env,            \* process.env as read when the modules are loaded
    issued,         \* number of outbound HTTP calls (axios invocations) so far
    sends,          \* number of send operations started so far
    last,           \* the last relay operation: inputs, requests, result
    log,            \* the lines the last relay operation wrote to the console
    appointments,   \* AppointmentService.appointments
    lastStore,      \* the last store operation: inputs, store before, result
    tasks           \* the requests in progress: where each is, what it called

vars == <<env, issued, sends, last, log, appointments, lastStore, tasks>>
relayVars == <<env, issued, sends, last, log>>
storeVars == <<appointments, lastStore, tasks>>

---------------------------------------------------------------------------
(* Bounds of the model *)

MaxSends == 2
MaxAppointments == 2
MaxTasks == 2

---------------------------------------------------------------------------
(* JavaScript values *)

Undef == [t |-> "undefined"]
Str(s) == [t |-> "string", v |-> s]
Obj(r) == [t |-> "object", v |-> r]

\* Truthiness of a value whose string payload is fixed text.
Truthy(x) == x.t # "undefined" /\ (x.t = "string" => x.v # "")

\* Truthiness of a value whose string payload is user text.
TruthyText(x) == x.t # "undefined" /\ (x.t = "string" => Len(x.v) > 0)

\* a || b
OrElse(a, b) == IF Truthy(a) THEN a ELSE b

\* Template-literal coercion `${x}` of a fixed-text value.
ToStringJs(x) ==
    CASE x.t = "undefined" -> "undefined"
      [] x.t = "string" -> x.v
      [] x.t = "object" -> "[object Object]"

\* JSON.stringify on the vendor bodies of the model.
JSONstringify(x) ==
    CASE x.t = "string" -> "\"" \o x.v \o "\""
      [] x.t = "object" /\ DOMAIN x.v = {"error"} ->
            "{\"error\":\"" \o x.v.error \o "\"}"
      [] x.t = "object" /\ DOMAIN x.v = {"success"} ->
            IF x.v.success THEN "{\"success\":true}" ELSE "{\"success\":false}"
      [] x.t = "object" /\ DOMAIN x.v = {"messageId"} ->
            "{\"messageId\":\"" \o x.v.messageId \o "\"}"
      [] OTHER -> "undefined"

---------------------------------------------------------------------------
(* User text *)

Whitespace == {" "}

\* Messages a caller may pass: empty, blank, plain, padded on both sides,
\* and with a blank inside.
Messages ==
    { << >>, <<" ">>, <<"a">>, <<" ", "a", " ">>, <<"a", " ", "a">> }

\* Phone numbers a caller may pass: empty, digits only, with a leading "+",
\* and malformed.
Phones == { << >>, <<"5", "5">>, <<"+", "5">>, <<"5", "+">> }

RECURSIVE TrimStart(_)
TrimStart(s) ==
    IF s # <<>> /\ Head(s) \in Whitespace THEN TrimStart(Tail(s)) ELSE s

RECURSIVE TrimEnd(_)
TrimEnd(s) ==
    IF s # <<>> /\ s[Len(s)] \in Whitespace
    THEN TrimEnd(SubSeq(s, 1, Len(s) - 1))
    ELSE s

\* String.prototype.trim
Trim(s) == TrimEnd(TrimStart(s))


---------------------------------------------------------------------------
(* The gateway as seen through axios *)

Response(status, data) == [kind |-> "response", status |-> status, data |-> data]
NoResponse(message) == [kind |-> "noresponse", message |-> message]
NoOutcome == [kind |-> "none"]

\* What the vendor may answer: an accepted send, with a body that has a
\* success property or with a body of the vendor's own (the id it gave the
\* message), a JSON error body, a raw text error body, an error with an
\* empty body.
VendorReplies ==
    { Response(200, Obj([success |-> TRUE])),
      Response(200, Obj([messageId |-> "m1"])),
      Response(401, Obj([error |-> "invalid token"])),
      Response(500, Str("Internal Server Error")),
      Response(502, Str("")) }

\* The timeout option of enviarMensagem's axios.post, in milliseconds.
TimeoutMs == 10000

\* A call that gets no response: the connection fails, or, when the request
\* carries a timeout, the timeout expires.
TransportFailures(req) ==
    { NoResponse("connect ECONNREFUSED") }
    \cup (IF req.timeout = TimeoutMs
          THEN { NoResponse("timeout of 10000ms exceeded") }
          ELSE {})

GatewayOutcomes(req) == VendorReplies \cup TransportFailures(req)

StatusText(status) ==
    CASE status = 200 -> "200"
      [] status = 401 -> "401"
      [] status = 500 -> "500"
      [] status = 502 -> "502"

\* axios resolves on a 2xx status and rejects otherwise.
Is2xx(outcome) ==
    outcome.kind = "response" /\ outcome.status >= 200 /\ outcome.status < 300

\* error.message of the rejection.
AxiosErrorMessage(outcome) ==
    IF outcome.kind = "response"
    THEN "Request failed with status code " \o StatusText(outcome.status)
    ELSE outcome.message

\* error.response.data of the rejection (err?.response?.data).
AxiosErrorData(outcome) ==
    IF outcome.kind = "response" THEN outcome.data ELSE Undef

Return(value) == [kind |-> "return", value |-> value]
Throw(message) == [kind |-> "throw", message |-> message]
NoResult == [kind |-> "none"]

---------------------------------------------------------------------------
(* ZapiService *)

\* constructor: both fields are literals of the source (the token literal is
\* abbreviated here).
apiUrl == "https://api.z-api.io/"
token == "<token literal>"

\* The axios request that sendRequest builds from its three parameters.
ZapiRequest(endpoint, method, data) ==
    [ method  |-> method,
      url     |-> apiUrl \o ToStringJs(endpoint),
      headers |-> [Authorization |-> "Bearer " \o token,
                   ContentType   |-> "application/json"],
      data    |-> data,
      timeout |-> 0 ]

\* sendRequest were it to report a failure as a value instead of throwing.
sendRequestReturningFailure(endpoint, method, data, outcome) ==
    [ requests |-> << ZapiRequest(endpoint, method, data) >>,
      result   |-> IF Is2xx(outcome)
                   THEN Return(outcome.data)
                   ELSE Return(Obj([success |-> FALSE,
                                    errorMessage |-> AxiosErrorMessage(outcome)])) ]

\* sendRequest were it to repeat a failed call once.
sendRequestRetrying(endpoint, method, data, outcome) ==
    [ requests |-> IF Is2xx(outcome)
                   THEN << ZapiRequest(endpoint, method, data) >>
                   ELSE << ZapiRequest(endpoint, method, data),
                           ZapiRequest(endpoint, method, data) >>,
      result   |-> IF Is2xx(outcome)
                   THEN Return(outcome.data)
                   ELSE Throw("Erro ao comunicar com a Z-API: "
                              \o AxiosErrorMessage(outcome)) ]

\* sendRequest: one axios call; response.data on success, a new Error built
\* from error.message otherwise.
sendRequest(endpoint, method, data, outcome) ==
    [ requests |-> << ZapiRequest(endpoint, method, data) >>,
      result   |-> IF Is2xx(outcome)
                   THEN Return(outcome.data)
                   ELSE Throw("Erro ao comunicar com a Z-API: "
                              \o AxiosErrorMessage(outcome)) ]

\* ZapiService.sendMessage(to, message)
ZapiSendMessage(to, message, outcome) ==
    sendRequest(Str("send-message"), Str("POST"),
                Obj([to |-> to, message |-> message]), outcome)

---------------------------------------------------------------------------
(* MessageService *)

formatMessage(message) == Str(Trim(message.v))

\* MessageService.sendMessage(to, message).  message.trim() throws a
\* TypeError when message is undefined.  The payload object is the only
\* argument handed to sendRequest, so it binds to the parameter endpoint and
\* leaves method and data undefined.
MessageServiceSendMessage(to, message, outcome) ==
    IF message.t = "undefined"
    THEN [ requests |-> << >>,
           result   |-> Throw("Cannot read properties of undefined (reading 'trim')") ]
    ELSE sendRequest(Obj([to |-> to, message |-> formatMessage(message)]),
                     Undef, Undef, outcome)

\* validators.ts: validateMessageData({recipient, message}).  No send path
\* calls it.
validateMessageData(data) ==
    ~ (~ TruthyText(data.recipient) \/ ~ TruthyText(data.message))

---------------------------------------------------------------------------
(* MessagesController *)

NoHttp == [status |-> 0, body |-> Undef]

\* sendMessage: 200 with the service's return value, 500 with
\* {error: error.message} when the service throws.
ControllerReply(result) ==
    IF result.kind = "return"
    THEN [status |-> 200, body |-> result.value]
    ELSE [status |-> 500, body |-> Obj([error |-> result.message])]

\* The methods MessageService defines.
MessageServiceMethods == {"sendMessage", "formatMessage", "receiveMessage"}

\* Bodies a webhook delivery may carry.
WebhookPayloads ==
    { Undef, Obj([phone |-> "55", message |-> "oi"]) }

\* console.log's rendering of a webhook body.
Inspect(data) ==
    IF data.t = "undefined" THEN "undefined"
    ELSE "{ phone: '" \o data.v.phone \o "', message: '"
         \o data.v.message \o "' }"

\* MessageService.receiveMessage(data): one console line, no request, no
\* return value.
MessageServiceReceiveMessage(data) ==
    [ requests |-> << >>,
      result   |-> Return(Undef),
      lines    |-> << <<"Received message:", Inspect(data)>> >> ]

\* receiveMessage's call this.messageService.processReceivedMessage(data):
\* a method MessageService does not define is undefined, and calling it
\* throws a TypeError before anything runs.
processReceivedMessage(data) ==
    IF "processReceivedMessage" \in MessageServiceMethods
    THEN MessageServiceReceiveMessage(data)
    ELSE [ requests |-> << >>,
           result   |-> Throw("this.messageService.processReceivedMessage"
                              \o " is not a function"),
           lines    |-> << >> ]

\* MessagesController.receiveMessage: 200 'Message received', 500 with
\* {error: error.message} when the call throws.
WebhookReply(result) ==
    IF result.kind = "return"
    THEN [status |-> 200, body |-> Str("Message received")]
    ELSE [status |-> 500, body |-> Obj([error |-> result.message])]

---------------------------------------------------------------------------
(* enviarMensagem (the stand-alone Z-API client) *)

\* process.env with every variable absent, empty, or set.
Environments ==
    { [ZAPI_INSTANCE_ID |-> Undef, ZAPI_TOKEN |-> Undef, ZAPI_BASE_URL |-> Undef],
      [ZAPI_INSTANCE_ID |-> Str(""), ZAPI_TOKEN |-> Str(""), ZAPI_BASE_URL |-> Str("")],
      [ZAPI_INSTANCE_ID |-> Str("I1"), ZAPI_TOKEN |-> Str("T1"),
       ZAPI_BASE_URL |-> Str("https://gw.example")] }

INSTANCE_ID == OrElse(env.ZAPI_INSTANCE_ID, Str("<instance literal>")).v
TOKEN == OrElse(env.ZAPI_TOKEN, Str("<token literal 2>")).v
BASE_URL == OrElse(env.ZAPI_BASE_URL, Str("https://api.z-api.io")).v

buildUrl ==
    BASE_URL \o "/instances/" \o INSTANCE_ID \o "/token/" \o TOKEN \o "/send-message"

EnviarRequest(phone, message) ==
    [ method  |-> Str("POST"),
      url     |-> buildUrl,
      headers |-> << >>,
      data    |-> Obj([phone |-> phone, message |-> message]),
      timeout |-> TimeoutMs ]

\* The catch block: err?.response?.data || err?.message || err, thrown as a
\* string (JSON.stringify when it is not one).
NormalizeError(outcome) ==
    LET err == Obj([message |-> AxiosErrorMessage(outcome)])
        messageErr == OrElse(OrElse(AxiosErrorData(outcome),
                                    Str(AxiosErrorMessage(outcome))), err)
    IN  IF messageErr.t = "string" THEN messageErr.v ELSE JSONstringify(messageErr)

enviarMensagem(phone, message, outcome) ==
    [ requests |-> << EnviarRequest(phone, message) >>,
      result   |-> IF Is2xx(outcome)
                   THEN Return(outcome.data)
                   ELSE Throw(NormalizeError(outcome)) ]

---------------------------------------------------------------------------
(* Relay: state and actions *)

\* What a caller may pass for a phone number or a message.
PhoneInputs == {Undef} \cup {Str(p) : p \in Phones}
MessageInputs == {Undef} \cup {Str(m) : m \in Messages}

IdleLast ==
    [op |-> "none", to |-> Undef, message |-> Undef,
     requests |-> << >>, outcome |-> NoOutcome,
     result |-> NoResult, http |-> NoHttp]

IdleLastStore ==
    [op |-> "none", id |-> "", arg |-> [kind |-> "none"],
     before |-> << >>, result |-> [kind |-> "null"]]

\* Requests in progress: none has called the store yet.
Tasks == 1..MaxTasks
IdleTasks ==
    [t \in Tasks |-> [pc |-> "ready", op |-> "none", id |-> "",
                      arg |-> [kind |-> "none"], result |-> [kind |-> "null"]]]

\* The bookkeeping every relay operation shares; lines is what the
\* operation wrote to the console.
RecordLogged(op, to, message, run, outcome, http, lines) ==
    /\ last' = [op |-> op, to |-> to, message |-> message,
                requests |-> run.requests,
                outcome |-> IF run.requests = << >> THEN NoOutcome ELSE outcome,
                result |-> run.result, http |-> http]
    /\ issued' = issued + Len(run.requests)
    /\ sends' = sends + 1
    /\ log' = lines
    /\ UNCHANGED <<env, storeVars>>

\* The send operations write nothing to the console.
Record(op, to, message, run, outcome, http) ==
    RecordLogged(op, to, message, run, outcome, http, << >>)

\* The bodies a POST /messages may carry: the number in the property
\* recipient or in the property to (one of them at most), and a message; a
\* property that is absent reads as undefined.
SendBodies ==
    { [recipient |-> r, to |-> t, message |-> m] :
        r \in PhoneInputs, t \in PhoneInputs, m \in MessageInputs }

OneNumber(body) == body.recipient = Undef \/ body.to = Undef

\* The bookkeeping of a relay operation that was given a request body.
RecordRequest(op, body, to, message, run, outcome, http) ==
    /\ last' = [op |-> op, to |-> to, message |-> message,
                requests |-> run.requests,
                outcome |-> IF run.requests = << >> THEN NoOutcome ELSE outcome,
                result |-> run.result, http |-> http, body |-> body]
    /\ issued' = issued + Len(run.requests)
    /\ sends' = sends + 1
    /\ log' = << >>
    /\ UNCHANGED <<env, storeVars>>

\* POST /messages: MessagesController.sendMessage over
\* MessageService.sendMessage over ZapiService.sendRequest.  The handler
\* reads { recipient, message } from the body.
MessagesControllerSendMessage ==
    /\ sends < MaxSends
    /\ \E body \in SendBodies :
         /\ OneNumber(body)
         /\ \E outcome \in GatewayOutcomes(ZapiRequest(Undef, Undef, Undef)) :
              LET recipient == body.recipient
                  message == body.message
                  run == MessageServiceSendMessage(recipient, message, outcome)
              IN  RecordRequest("MessagesController.sendMessage", body,
                                recipient, message, run, outcome,
                                ControllerReply(run.result))

\* ZapiService.sendMessage called directly.
ZapiServiceSendMessage ==
    /\ sends < MaxSends
    /\ \E to \in PhoneInputs, message \in MessageInputs :
         \E outcome \in GatewayOutcomes(ZapiRequest(Undef, Undef, Undef)) :
            Record("ZapiService.sendMessage", to, message,
                   ZapiSendMessage(to, message, outcome), outcome, NoHttp)

\* enviarMensagem called directly.
EnviarMensagem ==
    /\ sends < MaxSends
    /\ \E phone \in PhoneInputs, message \in MessageInputs :
         \E outcome \in GatewayOutcomes(EnviarRequest(phone, message)) :
            Record("enviarMensagem", phone, message,
                   enviarMensagem(phone, message, outcome), outcome, NoHttp)

\* An inbound webhook delivery: MessagesController.receiveMessage.
MessagesControllerReceiveMessage ==
    /\ sends < MaxSends
    /\ \E messageData \in WebhookPayloads :
         LET run == processReceivedMessage(messageData)
         IN  RecordLogged("MessagesController.receiveMessage", Undef,
                          messageData, run, NoOutcome,
                          WebhookReply(run.result), run.lines)

\* MessageService.receiveMessage called directly.
ReceiveMessage ==
    /\ sends < MaxSends
    /\ \E data \in WebhookPayloads :
         LET run == MessageServiceReceiveMessage(data)
         IN  RecordLogged("MessageService.receiveMessage", Undef, data, run,
                          NoOutcome, NoHttp, run.lines)

NextRelay ==
    \/ MessagesControllerSendMessage
    \/ ZapiServiceSendMessage
    \/ EnviarMensagem
    \/ MessagesControllerReceiveMessage
    \/ ReceiveMessage

---------------------------------------------------------------------------
(* AppointmentService *)

Fields == {"id", "clientName", "date", "time", "notes"}
Required == {"id", "clientName", "date", "time"}

Ids == {"1", "2"}

FieldValues(f) ==
    CASE f = "id" -> Ids
      [] f = "clientName" -> {"A"}
      [] f = "date" -> {"2024-01-01"}
      [] f = "time" -> {"10:00", "11:00"}
      [] f = "notes" -> {"n"}

\* Objects whose properties are exactly the fields of `dom`.
ObjectsOver(dom) ==
    { r \in [dom -> UNION {FieldValues(f) : f \in Fields}] :
        \A f \in dom : r[f] \in FieldValues(f) }

\* The interface Appointment: notes is optional.
Appointment == ObjectsOver(Required) \cup ObjectsOver(Fields)

\* What a request body may carry as an update: any subset of the
\* identifier, a required field and the optional field.
PatchFields == {"id", "time", "notes"}
Patches == UNION {ObjectsOver(dom) : dom \in SUBSET PatchFields}

\* Array.prototype.findIndex(app => app.id === id), 1-based; 0 stands for -1.
RECURSIVE FindFrom(_, _, _)
FindFrom(apps, id, i) ==
    IF i > Len(apps) THEN 0
    ELSE IF apps[i].id = id THEN i
    ELSE FindFrom(apps, id, i + 1)

findIndex(apps, id) == FindFrom(apps, id, 1)

\* The update were it to store the patch in place of the merged record.
SpreadReplacing(a, b) == b

\* { ...a, ...b }
Spread(a, b) ==
    [f \in DOMAIN a \cup DOMAIN b |-> IF f \in DOMAIN b THEN b[f] ELSE a[f]]

\* Array.prototype.splice(index, 1)
Splice(apps, index) ==
    SubSeq(apps, 1, index - 1) \o SubSeq(apps, index + 1, Len(apps))

Null == [kind |-> "null"]
AppointmentResult(a) == [kind |-> "appointment", value |-> a]
BoolResult(b) == [kind |-> "boolean", value |-> b]
ListResult(apps) == [kind |-> "list", value |-> apps]

\* scheduleAppointment were it to put the new record first (unshift).
scheduleAppointmentFirst(apps, appointment) ==
    [ appointments |-> << appointment >> \o apps,
      result       |-> AppointmentResult(appointment) ]

\* scheduleAppointment(appointment): the store after, and the value returned.
scheduleAppointment(apps, appointment) ==
    [ appointments |-> Append(apps, appointment),
      result       |-> AppointmentResult(appointment) ]

\* getAppointments()
getAppointments(apps) ==
    [ appointments |-> apps, result |-> ListResult(apps) ]

\* updateAppointment were it to merge into every record that has the id
\* (a map over the array instead of findIndex).
updateAppointmentEvery(apps, id, updatedAppointment) ==
    LET index == findIndex(apps, id)
    IN  IF index # 0
        THEN LET merged == Spread(apps[index], updatedAppointment)
             IN  [ appointments |->
                       [i \in 1..Len(apps) |->
                           IF apps[i].id = id
                           THEN Spread(apps[i], updatedAppointment)
                           ELSE apps[i]],
                   result       |-> AppointmentResult(merged) ]
        ELSE [ appointments |-> apps, result |-> Null ]

\* updateAppointment(id, updatedAppointment)
updateAppointment(apps, id, updatedAppointment) ==
    LET index == findIndex(apps, id)
    IN  IF index # 0
        THEN LET merged == Spread(apps[index], updatedAppointment)
             IN  [ appointments |-> [apps EXCEPT ![index] = merged],
                   result       |-> AppointmentResult(merged) ]
        ELSE [ appointments |-> apps, result |-> Null ]

\* cancelAppointment were it to splice without testing the index:
\* splice(-1, 1) removes the last record.
cancelAppointmentUnguarded(apps, id) ==
    LET index == findIndex(apps, id)
    IN  [ appointments |-> IF index # 0 THEN Splice(apps, index)
                           ELSE SubSeq(apps, 1, Len(apps) - 1),
          result       |-> BoolResult(TRUE) ]

\* cancelAppointment(id)
cancelAppointment(apps, id) ==
    LET index == findIndex(apps, id)
    IN  IF index # 0
        THEN [ appointments |-> Splice(apps, index), result |-> BoolResult(TRUE) ]
        ELSE [ appointments |-> apps, result |-> BoolResult(FALSE) ]

---------------------------------------------------------------------------
(* Store: state and actions *)

NoArg == [kind |-> "none"]

Apply(op, id, arg, run) ==
    /\ appointments' = run.appointments
    /\ lastStore' = [op |-> op, id |-> id, arg |-> arg,
                     before |-> appointments, result |-> run.result]
    /\ UNCHANGED <<relayVars, tasks>>

Schedule ==
    /\ Len(appointments) < MaxAppointments
    /\ \E appointment \in Appointment :
         Apply("schedule", "", appointment,
               scheduleAppointment(appointments, appointment))

List ==
    Apply("list", "", NoArg, getAppointments(appointments))

Update ==
    \E id \in Ids, patch \in Patches :
        Apply("update", id, patch, updateAppointment(appointments, id, patch))

Cancel ==
    \E id \in Ids :
        Apply("cancel", id, NoArg, cancelAppointment(appointments, id))

\* The methods AppointmentService defines.
AppointmentServiceMethods ==
    {"scheduleAppointment", "getAppointments", "updateAppointment",
     "cancelAppointment"}

HttpResult(status, body) == [kind |-> "http", status |-> status, body |-> body]

\* A controller's call of this.appointmentService[method]: calling a method
\* the service does not define throws a TypeError.
CallAppointmentService(method, run) ==
    IF method \in AppointmentServiceMethods
    THEN run
    ELSE [ appointments |-> appointments,
           result |-> Throw("this.appointmentService." \o method
                            \o " is not a function") ]

\* AppointmentsController.createAppointment: 201 with the new record, 500
\* when the call throws.
ControllerCreateReply(run) ==
    [ appointments |-> run.appointments,
      result |-> IF run.result.kind = "throw"
                 THEN HttpResult(500, [message |-> "Error creating appointment"])
                 ELSE HttpResult(201, run.result) ]

\* AppointmentsController.updateAppointment: 200 with whatever the service
\* returned (the merged record or null), 500 when the call throws.
ControllerUpdateReply(run) ==
    [ appointments |-> run.appointments,
      result |-> IF run.result.kind = "throw"
                 THEN HttpResult(500, [message |-> "Error updating appointment"])
                 ELSE HttpResult(200, run.result) ]

\* AppointmentsController.getAppointment: 200 with the record, 404 when the
\* service returned a falsy value, 500 when the call throws.
ControllerGetReply(run) ==
    [ appointments |-> run.appointments,
      result |-> IF run.result.kind = "throw"
                 THEN HttpResult(500, [message |-> "Error retrieving appointment"])
                 ELSE IF run.result.kind = "appointment"
                 THEN HttpResult(200, run.result)
                 ELSE HttpResult(404, [message |-> "Appointment not found"]) ]

\* POST /appointments
PostAppointment ==
    \E body \in Appointment :
        Apply("AppointmentsController.createAppointment", "", body,
              ControllerCreateReply(
                  CallAppointmentService("createAppointment",
                      scheduleAppointment(appointments, body))))

\* PUT /appointments/:id
PutAppointment ==
    \E id \in Ids, body \in Patches :
        Apply("AppointmentsController.updateAppointment", id, body,
              ControllerUpdateReply(
                  CallAppointmentService("updateAppointment",
                      updateAppointment(appointments, id, body))))

\* GET /appointments/:id
GetAppointment ==
    \E id \in Ids :
        Apply("AppointmentsController.getAppointment", id, NoArg,
              ControllerGetReply(
                  CallAppointmentService("getAppointment",
                      [appointments |-> appointments, result |-> Null])))

(* ContactsController *)

\* A body passed to res.send as a string.
Text(text) == [kind |-> "text", text |-> text]

\* Contact of types/index.ts, without the optional email.
Contacts == { [id |-> id, name |-> "Ana", phoneNumber |-> "5511999999999"] : id \in Ids }

\* ContactsController.addContact: the body is not read and nothing is kept.
addContact(body) == HttpResult(201, Text("Contact added successfully"))

\* ContactsController.getContact
getContact(contactId) == HttpResult(200, Text("Contact details for ID: " \o contactId))

\* ContactsController.getAllContacts
getAllContacts == HttpResult(200, Text("List of all contacts"))

\* A handler of the controller answers and leaves the store as it is.
Answer(op, id, arg, http) ==
    Apply(op, id, arg, [appointments |-> appointments, result |-> http])

\* POST /contacts
AddContact ==
    \E body \in Contacts :
        Answer("ContactsController.addContact", "", body, addContact(body))

\* GET /contacts/:id
GetContact ==
    \E id \in Ids :
        Answer("ContactsController.getContact", id, NoArg, getContact(id))

\* The handler that lists the contacts.
GetAllContacts ==
    Answer("ContactsController.getAllContacts", "", NoArg, getAllContacts)

NextStore ==
    \/ Schedule
    \/ List
    \/ Update
    \/ Cancel
    \/ PostAppointment
    \/ PutAppointment
    \/ GetAppointment
    \/ AddContact
    \/ GetContact
    \/ GetAllContacts

---------------------------------------------------------------------------
(* scripts/test_zapi_variants.ps1 *)

\* A PowerShell string is the sequence of the pieces it was put together
\* from: literals of the script and values of its parameters.
RECURSIVE Flatten(_)
Flatten(texts) ==
    IF texts = << >> THEN << >> ELSE Head(texts) \o Flatten(Tail(texts))

RECURSIVE Join(_, _)
Join(texts, sep) ==
    IF texts = << >> THEN << >>
    ELSE IF Len(texts) = 1 THEN Head(texts)
    ELSE Head(texts) \o sep \o Join(Tail(texts), sep)

DigitChar == <<"0", "1", "2", "3", "4", "5", "6", "7", "8", "9">>

\* The decimal numeral of a natural number.
RECURSIVE Decimal(_)
Decimal(n) ==
    IF n < 10 THEN DigitChar[n + 1]
    ELSE Decimal(n \div 10) \o DigitChar[(n % 10) + 1]

\* $BaseUrl.TrimEnd('/')
RECURSIVE TrimEndSlash(_)
TrimEndSlash(text) ==
    IF text # << >> /\ text[Len(text)] = "/"
    THEN TrimEndSlash(SubSeq(text, 1, Len(text) - 1))
    ELSE text

\* Select-Object -Unique: the first occurrence of each element, in order.
RECURSIVE Unique(_)
Unique(seq) ==
    IF seq = << >> THEN << >>
    ELSE LET init == Unique(SubSeq(seq, 1, Len(seq) - 1))
             x == seq[Len(seq)]
         IN  IF \E i \in 1..Len(init) : init[i] = x THEN init
             ELSE Append(init, x)

\* The parameters of a run: a full URL with a token, an instance with a
\* token, an instance alone, and a token alone.
ScriptParams ==
    { [BaseUrl |-> <<"https://gw.example/send-text", "/">>,
       InstanceId |-> << >>, Token |-> <<"T1">>, Phone |-> <<"5522">>],
      [BaseUrl |-> << >>,
       InstanceId |-> <<"I1">>, Token |-> <<"T1">>, Phone |-> <<"5522">>],
      [BaseUrl |-> << >>,
       InstanceId |-> <<"I1">>, Token |-> << >>, Phone |-> <<"5522">>],
      [BaseUrl |-> << >>,
       InstanceId |-> << >>, Token |-> <<"T1">>, Phone |-> <<"5522">>] }

\* $urls: the candidate URLs, before and after deduplication.
CandidateUrls(params) ==
    LET root == <<"https://api.z-api.io/instances/">> \o params.InstanceId
    IN  IF params.BaseUrl # << >>
        THEN << TrimEndSlash(params.BaseUrl) >>
        ELSE IF params.InstanceId # << >> /\ params.Token # << >>
        THEN << root \o <<"/token/">> \o params.Token \o <<"/send-text">>,
                root \o <<"/token/">> \o params.Token \o <<"/send-message">>,
                root \o <<"/send-text">>,
                root \o <<"/send-message">>,
                root \o <<"/send-text?token=">> \o params.Token,
                root \o <<"/send-message?token=">> \o params.Token >>
        ELSE IF params.InstanceId # << >>
        THEN << root \o <<"/send-text">>, root \o <<"/send-message">> >>
        ELSE << >>

urls(params) == Unique(CandidateUrls(params))

Field(key, text) == [key |-> key, kind |-> "text", text |-> text]
Nested(key, fields) == [key |-> key, kind |-> "object", fields |-> fields]

\* $payloads: the six body shapes, each a list of fields (the accents of
\* the message texts are left out).
payloads(params) ==
    << << Field("phone", params.Phone),
          Field("message", <<"Teste diagnostico - phone/message">>) >>,
       << Field("to", params.Phone),
          Field("message", <<"Teste diagnostico - to/message">>) >>,
       << Field("to", params.Phone \o <<"@c.us">>),
          Field("message", <<"Teste diagnostico - to@c.us">>) >>,
       << Field("to", params.Phone),
          Field("type", <<"text">>),
          Nested("text", << Field("body", <<"Teste diagnostico - text.body">>) >>) >>,
       << Field("chatId", params.Phone),
          Field("body", <<"Teste diagnostico - chatId/body">>) >>,
       << Field("number", params.Phone),
          Field("message", <<"Teste diagnostico - number/message">>) >> >>

\* $headerCombos: Bearer, Client-Token, both, none.
headerCombos(params) ==
    << << Field("Authorization", <<"Bearer ">> \o params.Token) >>,
       << Field("Client-Token", params.Token) >>,
       << Field("Authorization", <<"Bearer ">> \o params.Token),
          Field("Client-Token", params.Token) >>,
       << >> >>

Keys(fields) == [i \in 1..Len(fields) |-> << fields[i].key >>]

\* $p | ConvertTo-Json -Depth 10
RECURSIVE ConvertToJson(_)
ConvertToJson(fields) ==
    LET Render(f) ==
            <<"\"", f.key, "\":">>
            \o (IF f.kind = "text" THEN <<"\"">> \o f.text \o <<"\"">>
                ELSE ConvertToJson(f.fields))
    IN  <<"{">>
        \o Join([i \in 1..Len(fields) |-> Render(fields[i])], <<",">>)
        \o <<"}">>

\* "#${attempt} url=$u headers=... payload_type=..."
Label(attempt, u, h, p) ==
    <<"#", Decimal(attempt), " url=">> \o u
    \o <<" headers=">>
    \o (IF h = << >> THEN <<"none">> ELSE Join(Keys(h), <<",">>))
    \o <<" payload_type=">> \o Join(Keys(p), <<",">>)

\* What Invoke-WebRequest may end with: a 2xx response, an HTTP error with a
\* body, or no response at all.
ScriptOutcomes ==
    { Response(200, Obj([success |-> TRUE])),
      Response(401, Obj([error |-> "invalid token"])),
      NoResponse("Unable to connect to the remote server") }

\* The request Invoke-WebRequest sends for TryRequest's parameters.
WebRequest(url, headers, payload) ==
    [ method      |-> "POST",
      url         |-> url,
      headers     |-> headers,
      contentType |-> "application/json",
      body        |-> payload ]

\* The lines TryRequest writes after the call: status, headers and body of
\* a response, or the error and what the error response carried.
ResponseLines(outcome) ==
    IF Is2xx(outcome)
    THEN << <<"StatusCode: ", StatusText(outcome.status), " - OK">>,
            <<"Headers:">>,
            <<"Body:", JSONstringify(outcome.data)>> >>
    ELSE IF outcome.kind = "response"
    THEN << <<"ERROR: ", "The remote server returned an error: (",
              StatusText(outcome.status), ")">>,
            <<"StatusCode (error): ", StatusText(outcome.status)>>,
            <<"Body:", JSONstringify(outcome.data)>> >>
    ELSE << <<"ERROR: ", outcome.message>> >>

\* TryRequest were it to send the Bearer header whatever it was handed.
TryRequestAlwaysBearer(url, headers, payload, label, outcome) ==
    [ requests |-> << WebRequest(url,
                          << Field("Authorization", <<"Bearer ">>) >>
                          \o headers, payload) >>,
      result   |-> NoResult,
      lines    |-> << >> ]

\* TryRequest -url -headers -payload -label: four lines that show the call,
\* the call, the lines that show how it ended.
TryRequest(url, headers, payload, label, outcome) ==
    [ requests |-> << WebRequest(url, headers, payload) >>,
      result   |-> NoResult,
      lines    |->
          << <<"==== TRY: ">> \o label \o <<" ====">>,
             <<"URL: ">> \o url,
             <<"HEADERS: ">>
                \o Join([i \in 1..Len(headers) |->
                            <<headers[i].key, "=">> \o headers[i].text],
                        <<"; ">>),
             <<"PAYLOAD: ">> \o payload >>
          \o ResponseLines(outcome)
          \o << <<"==== END ====">> >> ]

\* The position of a combination in the order the three loops visit them.
Attempt(ui, hi, pi, nh, np) == (ui - 1) * nh * np + (hi - 1) * np + pi

\* The calls of TryRequest that the three loops of a run make: for each
\* URL, each header combination and each payload, the arguments passed.
Calls(params) ==
    LET us == urls(params)
        hs == headerCombos(params)
        ps == payloads(params)
    IN  { [ params  |-> params,
            url     |-> us[c[1]],
            headers |-> hs[c[2]],
            payload |-> ps[c[3]],
            json    |-> ConvertToJson(ps[c[3]]),
            label   |-> Label(Attempt(c[1], c[2], c[3], Len(hs), Len(ps)),
                              us[c[1]], hs[c[2]], ps[c[3]]) ] :
          c \in (1..Len(us)) \X (1..Len(hs)) \X (1..Len(ps)) }

AllCalls == UNION { Calls(params) : params \in ScriptParams }

\* One iteration of the innermost loop: any of the calls of a run.
TryVariant ==
    /\ sends < MaxSends
    /\ \E call \in AllCalls, outcome \in ScriptOutcomes :
         LET run == TryRequest(call.url, call.headers, call.json, call.label,
                               outcome)
         IN  /\ last' = [op |-> "TryRequest", to |-> Undef,
                         message |-> Undef, requests |-> run.requests,
                         outcome |-> outcome, result |-> run.result,
                         http |-> NoHttp, params |-> call.params,
                         headers |-> call.headers, payload |-> call.payload]
             /\ issued' = issued + Len(run.requests)
             /\ sends' = sends + 1
             /\ log' = run.lines
             /\ UNCHANGED <<env, storeVars>>

\* A run with neither -BaseUrl nor -InstanceId: one line, exit 1.
TryNothing ==
    /\ sends < MaxSends
    /\ \E params \in ScriptParams :
         /\ urls(params) = << >>
         /\ last' = [op |-> "test_zapi_variants", to |-> Undef,
                     message |-> Undef, requests |-> << >>,
                     outcome |-> NoOutcome, result |-> NoResult,
                     http |-> NoHttp, params |-> params]
         /\ log' = << <<"Either -BaseUrl or -InstanceId must be provided.">> >>
         /\ sends' = sends + 1
         /\ UNCHANGED <<env, issued, storeVars>>

---------------------------------------------------------------------------
(* railway_full.ps1: Import-EnvFile *)

NoFile == [exists |-> FALSE, lines |-> << >>]
File(lines) == [exists |-> TRUE, lines |-> lines]

\* .env files: none; a comment, a blank line and a pair; a padded pair whose
\* value holds a "=", a line without "=" and a line without a key.
EnvFiles ==
    { NoFile,
      File(<< <<"#", " ", "c">>, <<" ">>, <<"ZAPI_TOKEN", "=", "T1">> >>),
      File(<< <<" ", "K", " ", "=", " ", "a", "=", "b", " ">>,
              <<"NOEQ">>, <<"=", "v">> >>) }

RECURSIVE IndexOf(_, _)
IndexOf(text, c) ==
    IF text = << >> THEN 0
    ELSE IF Head(text) = c THEN 1
    ELSE LET rest == IndexOf(Tail(text), c)
         IN  IF rest = 0 THEN 0 ELSE rest + 1

\* $line -split '=',2
Split2(line) ==
    LET i == IndexOf(line, "=")
    IN  IF i = 0 THEN << line >>
        ELSE << SubSeq(line, 1, i - 1), SubSeq(line, i + 1, Len(line)) >>

\* The body of the ForEach-Object block for one line of the file: the line
\* it writes and the railway command it runs, if any.
ImportLine(raw) ==
    LET line == Trim(raw)
        pair == Split2(line)
    IN  IF line # << >> /\ Head(line) # "#" /\ Len(pair) >= 2
           /\ Trim(pair[1]) # << >>
        THEN [ lines    |-> << <<"railway variables set ">>
                               \o Trim(pair[1]) \o <<"=***">> >>,
               commands |-> << [k |-> Trim(pair[1]), v |-> Trim(pair[2])] >> ]
        ELSE [ lines |-> << >>, commands |-> << >> ]

\* Import-EnvFile -Path
ImportEnvFileRun(path, file) ==
    IF ~ file.exists
    THEN [ lines    |-> << <<"Env file '", path, "' not found, skipping import.">> >>,
           commands |-> << >> ]
    ELSE [ lines    |-> << <<"Importing variables from ", path>> >>
                        \o Flatten([i \in 1..Len(file.lines) |->
                                       ImportLine(file.lines[i]).lines]),
           commands |-> Flatten([i \in 1..Len(file.lines) |->
                                    ImportLine(file.lines[i]).commands]) ]

ImportEnvFile ==
    /\ sends < MaxSends
    /\ \E file \in EnvFiles :
         LET run == ImportEnvFileRun(".env", file)
         IN  /\ last' = [op |-> "Import-EnvFile", to |-> Undef,
                         message |-> Undef, requests |-> << >>,
                         outcome |-> NoOutcome, result |-> NoResult,
                         http |-> NoHttp, file |-> file,
                         commands |-> run.commands]
             /\ log' = run.lines
             /\ sends' = sends + 1
             /\ UNCHANGED <<env, issued, storeVars>>

\* The two clients called directly and the operator's scripts.
NextClients ==
    \/ ZapiServiceSendMessage
    \/ EnviarMensagem
    \/ TryVariant
    \/ TryNothing
    \/ ImportEnvFile

---------------------------------------------------------------------------
(* Callers of the store and the references they hold *)

\* scheduleAppointment pushes the object it was passed, updateAppointment
\* returns the object it stored, and getAppointments returns the array
\* itself.  The caller of the last operation therefore holds a reference
\* into the store, and what it assigns through that reference is assigned in
\* the store.

\* object[field] = value
AssignField(object, field, value) == Spread(object, field :> value)

WritableFields == {"time", "notes"}

CallerWrote(after) ==
    /\ appointments' = after
    /\ lastStore' = [op |-> "caller", id |-> "", arg |-> NoArg,
                     before |-> appointments, result |-> Null]
    /\ UNCHANGED <<relayVars, tasks>>

\* The caller of scheduleAppointment assigns a field of the object it
\* passed: the object is the last element of the array.
CallerWritesPassed ==
    /\ lastStore.op = "schedule"
    /\ \E field \in WritableFields : \E value \in FieldValues(field) :
         CallerWrote([appointments EXCEPT ![Len(appointments)] =
                         AssignField(@, field, value)])

\* The caller of updateAppointment assigns a field of the object it was
\* returned: the object is the element at the index that was found.
CallerWritesReturned ==
    /\ lastStore.op = "update"
    /\ lastStore.result.kind = "appointment"
    /\ \E field \in WritableFields : \E value \in FieldValues(field) :
         CallerWrote([appointments EXCEPT
                         ![findIndex(lastStore.before, lastStore.id)] =
                             AssignField(@, field, value)])

\* The caller of getAppointments assigns a field of an element of the list
\* it was returned, or takes the last element off (list.pop()).
CallerWritesList ==
    /\ lastStore.op = "list"
    /\ appointments # << >>
    /\ \/ \E i \in 1..Len(appointments), field \in WritableFields :
            \E value \in FieldValues(field) :
              CallerWrote([appointments EXCEPT ![i] =
                              AssignField(@, field, value)])
       \/ CallerWrote(SubSeq(appointments, 1, Len(appointments) - 1))

NextCallers ==
    \/ NextStore
    \/ CallerWritesPassed
    \/ CallerWritesReturned
    \/ CallerWritesList

---------------------------------------------------------------------------
(* Requests handled concurrently *)

\* A handler is an async function that awaits the value of a store method
\* (await this.appointmentService.updateAppointment(...)).  The method is
\* synchronous, so the call runs to its end in one step of the event loop;
\* the await then suspends the handler, and other handlers run before it
\* resumes and answers.

\* What the handlers in progress may ask for.
TaskAppointments ==
    {a \in Appointment : a.time = "10:00" /\ "notes" \notin DOMAIN a}
TaskPatches == ObjectsOver({"time"})
TaskInputs ==
    {[op |-> "schedule", id |-> "", arg |-> a] : a \in TaskAppointments}
    \cup {[op |-> "update", id |-> id, arg |-> patch] :
             id \in Ids, patch \in TaskPatches}
    \cup {[op |-> "cancel", id |-> id, arg |-> NoArg] : id \in Ids}

\* A store method were it to work on the array as it was before the
\* previous operation (a find and a modify with another request between).
ServiceCallStale(input, apps) ==
    CASE input.op = "schedule" ->
            scheduleAppointment(lastStore.before, input.arg)
      [] input.op = "update" ->
            updateAppointment(lastStore.before, input.id, input.arg)
      [] input.op = "cancel" ->
            cancelAppointment(lastStore.before, input.id)

\* The store method a handler calls, on the array as it is.
ServiceCall(input, apps) ==
    CASE input.op = "schedule" -> scheduleAppointment(apps, input.arg)
      [] input.op = "update" -> updateAppointment(apps, input.id, input.arg)
      [] input.op = "cancel" -> cancelAppointment(apps, input.id)

\* A handler reaches its await: the store method has run.
TaskCalls ==
    \E t \in Tasks, input \in TaskInputs :
        /\ tasks[t].pc = "ready"
        /\ input.op = "schedule" => Len(appointments) < MaxAppointments
        /\ LET run == ServiceCall(input, appointments)
           IN  /\ appointments' = run.appointments
               /\ lastStore' = [op |-> input.op, id |-> input.id,
                                arg |-> input.arg, before |-> appointments,
                                result |-> run.result]
               /\ tasks' = [tasks EXCEPT ![t] =
                               [pc |-> "awaiting", op |-> input.op,
                                id |-> input.id, arg |-> input.arg,
                                result |-> run.result]]
        /\ UNCHANGED relayVars

\* A handler resumes after its await and answers.
TaskResumes ==
    \E t \in Tasks :
        /\ tasks[t].pc = "awaiting"
        /\ tasks' = [tasks EXCEPT ![t].pc = "done"]
        /\ UNCHANGED <<relayVars, appointments, lastStore>>

NextTasks ==
    \/ TaskCalls
    \/ TaskResumes

---------------------------------------------------------------------------
(* Specifications *)

Init ==
    /\ env \in Environments
    /\ issued = 0 /\ sends = 0 /\ last = IdleLast /\ log = << >>
    /\ appointments = << >>
    /\ lastStore = IdleLastStore
    /\ tasks = IdleTasks

Next == NextRelay \/ NextStore

\* The whole program.
Spec == Init /\ [][Next]_vars

\* The relay alone, and the store alone: they share no state.
SpecRelay == Init /\ [][NextRelay]_vars
InitStoreAlone ==
    /\ env \in {e \in Environments : \A k \in DOMAIN e : e[k] = Undef}
    /\ issued = 0 /\ sends = 0 /\ last = IdleLast /\ log = << >>
    /\ appointments = << >>
    /\ lastStore = IdleLastStore
    /\ tasks = IdleTasks

SpecStore == InitStoreAlone /\ [][NextStore]_vars

\* The store with callers that keep the references they passed or were
\* returned.
SpecCallers == InitStoreAlone /\ [][NextCallers]_vars

\* The store under requests handled concurrently.
SpecTasks == InitStoreAlone /\ [][NextTasks]_vars

\* The clients and the scripts, with the environment set.
InitClients ==
    /\ env \in {e \in Environments : \A k \in DOMAIN e : Truthy(e[k])}
    /\ issued = 0 /\ sends = 0 /\ last = IdleLast /\ log = << >>
    /\ appointments = << >>
    /\ lastStore = IdleLastStore
    /\ tasks = IdleTasks

SpecClients == InitClients /\ [][NextClients]_vars

---------------------------------------------------------------------------
(* Vocabulary of the properties *)

\* sendText of the specification is MessageService.sendMessage, which runs
\* inside MessagesController.sendMessage.
SendText == "MessagesController.sendMessage"

Digits == {"5"}

\* A phone number: digits, after an optional leading "+".
PhonePattern(s) ==
    LET digits == IF s # << >> /\ Head(s) = "+" THEN Tail(s) ELSE s
    IN  digits # << >> /\ \A i \in 1..Len(digits) : digits[i] \in Digits

OnlyDigits(s) == s # << >> /\ \A i \in 1..Len(s) : s[i] \in Digits

BlankMessage(message) == message.t = "string" /\ Trim(message.v) = << >>

ValidInput(to, message) ==
    /\ to.t = "string" /\ PhonePattern(to.v)
    /\ message.t = "string" /\ Trim(message.v) # << >>

\* A GatewayResponse that reports a failure.
FailureResponse(value) ==
    value.t = "object" /\ "success" \in DOMAIN value.v /\ value.v.success = FALSE

\* The error text a failed operation carries, whether it is the errorMessage
\* of a returned failure or the message of a thrown Error.
FailureText(result) ==
    IF result.kind = "throw" THEN result.message
    ELSE IF FailureResponse(result.value) /\ "errorMessage" \in DOMAIN result.value.v
         THEN result.value.v.errorMessage
         ELSE "<none>"

Failed == last.requests # << >> /\ ~ Is2xx(last.outcome)

---------------------------------------------------------------------------
(* C1 *)

\* C1: when the message is empty or blank after trimming, or the recipient
\* does not match the phone pattern, sendText answers
\* {success: false, errorMessage: "invalid input"} and issues no gateway call.
C1_InvalidInputRejected ==
    (/\ last.op = SendText
     /\ last.to.t = "string"
     /\ BlankMessage(last.message) \/ ~ PhonePattern(last.to.v))
    => /\ last.requests = << >>
       /\ last.result = Return(Obj([success |-> FALSE,
                                    errorMessage |-> "invalid input"]))

---------------------------------------------------------------------------
(* C2 *)

---------------------------------------------------------------------------
(* C3 *)

\* C3: for a valid (to, message), sendText issues exactly one outbound call
\* whose body carries the trimmed message and the recipient as digits only.
C3_ValidSendIsNormalized ==
    (last.op = SendText /\ ValidInput(last.to, last.message))
    => /\ Len(last.requests) = 1
       /\ LET body == last.requests[1].data
          IN  /\ body.t = "object"
              /\ {"to", "message"} \subseteq DOMAIN body.v
              /\ body.v.message = Str(Trim(last.message.v))
              /\ OnlyDigits(body.v.to.v)

---------------------------------------------------------------------------
(* C4 *)

\* The error text the specification prescribes for a failed call.
PrescribedErrorText(outcome) ==
    IF outcome.kind = "response" /\ outcome.data.t = "object"
    THEN JSONstringify(outcome.data)
    ELSE IF outcome.kind = "response" /\ outcome.data.v # ""
    THEN outcome.data.v
    ELSE AxiosErrorMessage(outcome)

\* C4: on a non-2xx response or a transport failure the error text of the
\* result is the vendor's JSON error body when there is one, otherwise the
\* raw response text, otherwise the transport error message.  (Stated on the
\* error text alone, returned or thrown.)
C4_ErrorTextPrecedence ==
    Failed => FailureText(last.result) = PrescribedErrorText(last.outcome)

---------------------------------------------------------------------------
(* C5 *)

\* C5: when the gateway answers 401 with {"error": "invalid token"}, the
\* failure that sendText reports carries the error text "invalid token".
\* (Stated on the error text alone, returned or thrown.)
C5_InvalidTokenReported ==
    (/\ last.op = SendText
     /\ last.requests # << >>
     /\ last.outcome = Response(401, Obj([error |-> "invalid token"])))
    => FailureText(last.result) = "invalid token"

---------------------------------------------------------------------------
(* C6 *)

\* C6: while the base URL or the token is absent or empty in the
\* configuration, no send attempt is made (the operation ends with a
\* configuration error instead).
C6_NoSendWithoutConfig ==
    (/\ last.op = "enviarMensagem"
     /\ ~ Truthy(env.ZAPI_BASE_URL) \/ ~ Truthy(env.ZAPI_TOKEN))
    => last.requests = << >>

---------------------------------------------------------------------------
(* C7 *)

\* C7: no two stored appointments have the same id.
C7_UniqueIds ==
    \A i, j \in 1..Len(appointments) :
        i # j => appointments[i].id # appointments[j].id

---------------------------------------------------------------------------
(* C8 *)

\* C8: an update leaves the id of the record it changes as it was.
C8_IdImmutable ==
    (lastStore.op = "update" /\ findIndex(lastStore.before, lastStore.id) # 0)
    => LET index == findIndex(lastStore.before, lastStore.id)
       IN  appointments[index].id = lastStore.before[index].id

---------------------------------------------------------------------------
(* C9 *)

\* C9: after update(id, patch) on an existing appointment, every field the
\* patch supplies has the patch's value, every other field has the value it
\* had before, the record has no further field, and it is the value returned.
C9_MergeSemantics ==
    (lastStore.op = "update" /\ findIndex(lastStore.before, lastStore.id) # 0)
    => LET index == findIndex(lastStore.before, lastStore.id)
           old == lastStore.before[index]
           new == appointments[index]
           patch == lastStore.arg
       IN  /\ DOMAIN new = DOMAIN old \cup DOMAIN patch
           /\ \A f \in DOMAIN patch : new[f] = patch[f]
           /\ \A f \in DOMAIN old \ DOMAIN patch : new[f] = old[f]
           /\ lastStore.result = AppointmentResult(new)

\* The example of the specification: {clientName: "A", date: "2024-01-01",
\* time: "10:00"} updated with {time: "11:00"}.
C9_Witness ==
    /\ lastStore.op = "update"
    /\ lastStore.arg = [time |-> "11:00"]
    /\ Len(lastStore.before) = 1
    /\ lastStore.before[1] = [id |-> lastStore.id, clientName |-> "A",
                              date |-> "2024-01-01", time |-> "10:00"]
    /\ appointments[1] = [id |-> lastStore.id, clientName |-> "A",
                          date |-> "2024-01-01", time |-> "11:00"]

---------------------------------------------------------------------------
(* C10 *)

\* C10: after schedule(data) the list ends with the new record, whose id
\* differs from every other stored id; after a successful cancel(id) the
\* list holds no record with that id.
C10_RoundTrip ==
    /\ lastStore.op = "schedule"
         => /\ appointments # << >>
            /\ appointments[Len(appointments)] = lastStore.result.value
            /\ \A i \in 1..(Len(appointments) - 1) :
                  appointments[i].id # appointments[Len(appointments)].id
    /\ (lastStore.op = "cancel" /\ lastStore.result = BoolResult(TRUE))
         => \A i \in 1..Len(appointments) : appointments[i].id # lastStore.id

---------------------------------------------------------------------------
(* C11 *)

NoMatch(apps, id) == \A i \in 1..Len(apps) : apps[i].id # id

\* C11: update and cancel with an id that no stored record has report null
\* and false and leave the store as it was; schedule with a well-formed
\* appointment returns it and stores one more record.
C11_NotFoundLeavesStore ==
    /\ (lastStore.op = "update" /\ NoMatch(lastStore.before, lastStore.id))
         => lastStore.result = Null /\ appointments = lastStore.before
    /\ (lastStore.op = "cancel" /\ NoMatch(lastStore.before, lastStore.id))
         => lastStore.result = BoolResult(FALSE)
            /\ appointments = lastStore.before
    /\ lastStore.op = "schedule"
         => lastStore.result = AppointmentResult(lastStore.arg)
            /\ Len(appointments) = Len(lastStore.before) + 1

\* A cancel whose id matches none of the records of a non-empty store.
C11_Witness ==
    /\ lastStore.op = "cancel"
    /\ lastStore.before # << >>
    /\ NoMatch(lastStore.before, lastStore.id)
    /\ lastStore.result = BoolResult(FALSE)

---------------------------------------------------------------------------
(* C19 *)

\* C19: the store keeps insertion order. schedule puts the new record after
\* all the others, update leaves every record at its position, cancel takes
\* one record out and leaves the others in their order, and list returns the
\* stored sequence as it is and changes nothing, so a second list returns the
\* same sequence.
C19_InsertionOrder ==
    /\ lastStore.op = "schedule"
         => appointments = Append(lastStore.before, lastStore.arg)
    /\ lastStore.op = "update"
         => /\ Len(appointments) = Len(lastStore.before)
            /\ \A i \in 1..Len(appointments) :
                   \/ appointments[i] = lastStore.before[i]
                   \/ /\ lastStore.before[i].id = lastStore.id
                      /\ NoMatch(SubSeq(lastStore.before, 1, i - 1),
                                 lastStore.id)
    /\ lastStore.op = "cancel"
         => \/ appointments = lastStore.before
            \/ \E i \in 1..Len(lastStore.before) :
                   appointments = SubSeq(lastStore.before, 1, i - 1)
                                  \o SubSeq(lastStore.before, i + 1,
                                            Len(lastStore.before))
    /\ lastStore.op = "list"
         => /\ appointments = lastStore.before
            /\ lastStore.result = ListResult(appointments)

\* list on a store of two different records, the second scheduled last.
C19_Witness ==
    /\ lastStore.op = "list"
    /\ Len(appointments) = 2
    /\ appointments[1] # appointments[2]
    /\ lastStore.result = ListResult(appointments)

---------------------------------------------------------------------------
(* C16 *)

UpdateRoute == "AppointmentsController.updateAppointment"
GetRoute    == "AppointmentsController.getAppointment"

\* C16: the HTTP layer answers each kind of error with its own status: bad
\* input of a send with 400, a request for an appointment id that no record
\* has with 404, and a gateway failure of a send with 502 or 500 and the
\* normalised error text.
C16_ErrorStatusMapping ==
    /\ (lastStore.op \in {UpdateRoute, GetRoute}
        /\ NoMatch(lastStore.before, lastStore.id))
         => lastStore.result.status = 404
    /\ (last.op = SendText /\ ~ValidInput(last.to, last.message))
         => last.http.status = 400
    /\ (last.op = SendText /\ ValidInput(last.to, last.message) /\ Failed)
         => /\ last.http.status \in {500, 502}
            /\ last.http.body = Obj([error |-> FailureText(last.result)])

---------------------------------------------------------------------------
(* C12 *)

Webhook == "MessagesController.receiveMessage"

\* C12: every inbound webhook delivery is answered with a 2xx status.
C12_WebhookAcknowledged ==
    last.op = Webhook => last.http.status \in 200..299

---------------------------------------------------------------------------
(* C13 *)

\* C13: the relay neither drops a repeated send nor repeats a failed one.
\* Whatever was sent before, every sendText with valid input issues exactly
\* one outbound call, and when that call fails the operation ends with it:
\* the failure reaches the caller as an unsuccessful outcome (an Error here,
\* 500 from the controller), never as a success.
C13_OneCallPerSend ==
    [][ ( /\ sends' = sends + 1
          /\ last'.op = SendText
          /\ ValidInput(last'.to, last'.message) )
        => /\ issued' = issued + 1
           /\ Len(last'.requests) = 1
           /\ ~ Is2xx(last'.outcome)
                => /\ \/ last'.result.kind = "throw"
                      \/ FailureResponse(last'.result.value)
                   /\ last'.http.status >= 400 ]_vars

\* The second of two sends, both of which issued their call, has failed.
C13_Witness ==
    /\ sends = 2 /\ issued = 2
    /\ last.op = SendText
    /\ ValidInput(last.to, last.message)
    /\ Failed
    /\ last.result.kind = "throw"

---------------------------------------------------------------------------
(* C14 *)

TimedOut == NoResponse("timeout of 10000ms exceeded")

\* C14: every outbound call carries a bounded timeout, and a sendText whose
\* call timed out returns {success: false, errorMessage: <timeout message>}.
C14_BoundedTimeout ==
    /\ \A i \in 1..Len(last.requests) : last.requests[i].timeout > 0
    /\ (last.op = SendText /\ last.requests # << >> /\ last.outcome = TimedOut)
         => last.result =
              Return(Obj([success |-> FALSE,
                          errorMessage |-> AxiosErrorMessage(TimedOut)]))

---------------------------------------------------------------------------
(* C15 *)

Requests == {last.requests[i] : i \in 1..Len(last.requests)}

\* The names of the fields of a list of fields.
Names(fields) == {fields[i].key : i \in 1..Len(fields)}

\* The nesting depth at position i of a JSON text.
Depth(json, i) ==
    Cardinality({j \in 1..(i - 1) : json[j] = "{"})
    - Cardinality({j \in 1..(i - 1) : json[j] = "}"})

\* The keys of the outermost object of a JSON text.
TopLevelKeys(json) ==
    { json[i + 1] : i \in { k \in 1..(Len(json) - 2) :
                              /\ json[k] = "\""
                              /\ json[k + 2] = "\":"
                              /\ Depth(json, k) = 1 } }

---------------------------------------------------------------------------
(* C20 *)

\* The text holds the secret in full.
Contains(text, secret) ==
    \E i \in 1..(Len(text) - Len(secret) + 1) :
        SubSeq(text, i, i + Len(secret) - 1) = secret

\* The secrets the last operation handled: the script's -Token, the values
\* of the .env file.
Secrets ==
    IF last.op = "TryRequest" THEN {last.params.Token} \ {<< >>}
    ELSE IF last.op = "Import-EnvFile"
    THEN {last.commands[i].v : i \in 1..Len(last.commands)} \ {<< >>}
    ELSE {}

\* C20: no line written to the console holds a secret in full.
C20_SecretsMasked ==
    \A secret \in Secrets :
        \A i \in 1..Len(log) : ~ Contains(log[i], secret)

---------------------------------------------------------------------------
(* C17 *)

\* C17: what a caller assigns to the object it passed to schedule, or to
\* the list or the record it was returned, does not change the store.
C17_StoreOwnsRecords ==
    lastStore.op = "caller" => appointments = lastStore.before

---------------------------------------------------------------------------
(* C18 *)

\* The requests whose store method has run.
Called == {t \in Tasks : tasks[t].pc # "ready"}

\* The ways to put the requests that have called in a row.
Orders ==
    {order \in [1..Cardinality(Called) -> Called] :
        \A i, j \in DOMAIN order : order[i] = order[j] => i = j}

\* One call run alone on a store.
Alone(input, apps) ==
    CASE input.op = "schedule" -> scheduleAppointment(apps, input.arg)
      [] input.op = "update" -> updateAppointment(apps, input.id, input.arg)
      [] input.op = "cancel" -> cancelAppointment(apps, input.id)

\* The store after the calls of the first n requests of a row, run one after
\* another from the empty store.
RECURSIVE StoreAfter(_, _)
StoreAfter(order, n) ==
    IF n = 0 THEN << >>
    ELSE Alone(tasks[order[n]], StoreAfter(order, n - 1)).appointments

\* C18: the store method of every request runs as one step, so whatever
\* requests are in progress, the store and the value each request got are
\* those of running the calls one after another in some order.
C18_Serializable ==
    \E order \in Orders :
        /\ appointments = StoreAfter(order, Len(order))
        /\ \A n \in DOMAIN order :
              tasks[order[n]].result =
                  Alone(tasks[order[n]], StoreAfter(order, n - 1)).result

\* Two requests are suspended at their await at once: one has scheduled a
\* record and the other has updated it.
C18_Witness ==
    /\ \A t \in Tasks : tasks[t].pc = "awaiting"
    /\ \E t, u \in Tasks :
          /\ tasks[t].op = "schedule"
          /\ tasks[u].op = "update"
          /\ tasks[u].result.kind = "appointment"

---------------------------------------------------------------------------
(* C23 *)

\* The position of the first record that has the id, 0 when none has it.
First(apps, id) ==
    IF NoMatch(apps, id) THEN 0
    ELSE CHOOSE i \in 1..Len(apps) :
             apps[i].id = id /\ \A j \in 1..(i - 1) : apps[j].id # id

\* C23: update and cancel touch the targeted record only.  update keeps the
\* number of records and every record at a position other than the target's;
\* a cancel that returned true has removed the first record with the id, and
\* the records before it and after it are those that were there.
C23_FrameEffect ==
    /\ lastStore.op = "update"
         => /\ Len(appointments) = Len(lastStore.before)
            /\ \A i \in 1..Len(appointments) :
                   i # First(lastStore.before, lastStore.id)
                       => appointments[i] = lastStore.before[i]
    /\ (lastStore.op = "cancel" /\ lastStore.result = BoolResult(TRUE))
         => LET k == First(lastStore.before, lastStore.id)
            IN  /\ k # 0
                /\ Len(appointments) = Len(lastStore.before) - 1
                /\ \A i \in 1..(k - 1) : appointments[i] = lastStore.before[i]
                /\ \A i \in k..Len(appointments) :
                       appointments[i] = lastStore.before[i + 1]

\* A cancel on a store whose two records, different from one another, both
\* have the id: the first is gone and the second is left.
C23_Witness ==
    /\ lastStore.op = "cancel"
    /\ lastStore.result = BoolResult(TRUE)
    /\ Len(lastStore.before) = 2
    /\ lastStore.before[1].id = lastStore.id
    /\ lastStore.before[2].id = lastStore.id
    /\ lastStore.before[1] # lastStore.before[2]
    /\ appointments = << lastStore.before[2] >>

---------------------------------------------------------------------------
(* C21 *)

\* C21: a POST /messages whose body carries a valid number in the property
\* to and a message that is not blank is answered, when the gateway has
\* answered the call with a 2xx status, with status 200 and a body whose
\* property success is true.
C21_SendAnswered ==
    ( /\ last.op = SendText
      /\ ValidInput(last.body.to, last.body.message)
      /\ last.requests # << >>
      /\ Is2xx(last.outcome) )
    => /\ last.http.status = 200
       /\ last.http.body.t = "object"
       /\ "success" \in DOMAIN last.http.body.v
       /\ last.http.body.v.success = TRUE

---------------------------------------------------------------------------
(* C22 *)

\* The last request asked for the list of all contacts.
ListedContacts == lastStore.op = "ContactsController.getAllContacts"

\* C22: a request to list all contacts is answered with status 200 and a
\* body that is an array of contacts, whatever was added before, nothing
\* included.
C22_ContactsListed ==
    ListedContacts
    => /\ lastStore.result.status = 200
       /\ lastStore.result.body.kind = "list"

=============================================================================
